---------------------------- MODULE Spec2Model ----------------------------
(***************************************************************************)
(* A model of main.py: the Business / BusinessList duplicate filter and    *)
(* the control flow of main() (argument resolution, browser session, the   *)
(* scroll loop, the per-listing scrape and the per-term export).           *)
(*                                                                         *)
(* Python values are tagged tuples, so that None, "" and numbers can sit   *)
(* in the same field as they do in the dataclass:                          *)
(*   None -> <<"None">>;  str s -> <<"str", s>>;  int n -> <<"int", n>>;   *)
(*   float f -> <<"float", h>> with h the value in hundredths.             *)
(***************************************************************************)
EXTENDS Integers, Sequences, FiniteSets, TLC

VARIABLES
    pc,                 \* position of main()
    args_search,        \* args.search  (None or a str)
    args_total,         \* args.total   (None or an int)
    input_file,         \* input.txt: <<"None">> when missing, else its lines
    search_list,        \* main's search_list
    total,              \* main's total
    browser,            \* the playwright session: what has been opened
    term,               \* search_for_index (1-based)
    count,              \* the surface: current number of place links
    avail,              \* the surface: number of results it can load at all
    script,             \* the counts a scripted surface shows at the next polls
    npolls,             \* polls a scripted surface has served for the current term
    previously_counted, \* main's previously_counted
    exit_branch,        \* which branch left the scroll loop for this term
    listings,           \* main's listings (handles are positions on the surface)
    li,                 \* position of "for listing in listings"
    detail,             \* the detail pane shown after the last click
    err,                \* what the per-listing handler caught for the last listing
    business_list,      \* BusinessList.business_list
    seen_businesses,    \* BusinessList._seen_businesses
    files,              \* what save_to_excel / save_to_csv wrote, per search term
    site,               \* the detail panes the map site can show
    inserted            \* the records handed to a bare BusinessList, in call order

vars == <<pc, args_search, args_total, input_file, search_list, total, browser,
          term, count, avail, script, npolls, previously_counted, exit_branch,
          listings, li, detail, err, business_list, seen_businesses, files,
          site, inserted>>

-----------------------------------------------------------------------------
(* Python values *)

PyNone == <<"None">>
PyStr(s) == <<"str", s>>
PyInt(n) == <<"int", n>>
PyFloat(h) == <<"float", h>>

\* Python truthiness of a value: None, "" and zero are false.
Truthy(v) == v \notin {PyNone, PyStr(""), PyInt(0), PyFloat(0)}

\* "{v}" inside an f-string.
Format(v) == IF v[1] = "str" THEN v[2]
             ELSE IF v[1] = "None" THEN "None" ELSE ToString(v[2])

Min(a, b) == IF a <= b THEN a ELSE b

-----------------------------------------------------------------------------
(* Business and BusinessList *)

\* Business(): every field defaults to None.
Business == [name |-> PyNone, address |-> PyNone, domain |-> PyNone, website |-> PyNone,
             phone_number |-> PyNone, category |-> PyNone, location |-> PyNone,
             reviews_count |-> PyNone, reviews_average |-> PyNone,
             latitude |-> PyNone, longitude |-> PyNone]

\* A __hash__ that forgets the phone tag.
hash_no_phone(self) ==
    <<self.name>>
    \o (IF Truthy(self.domain)
        THEN <<PyStr("domain:" \o Format(self.domain))>> ELSE <<>>)
    \o (IF Truthy(self.website)
        THEN <<PyStr("website:" \o Format(self.website))>> ELSE <<>>)

\* The list Business.__hash__ builds: the name, then one "field:value" tag for
\* each of domain, website, phone_number that is truthy.
hash_fields(self) ==
    <<self.name>>
    \o (IF Truthy(self.domain)
        THEN <<PyStr("domain:" \o Format(self.domain))>> ELSE <<>>)
    \o (IF Truthy(self.website)
        THEN <<PyStr("website:" \o Format(self.website))>> ELSE <<>>)
    \o (IF Truthy(self.phone_number)
        THEN <<PyStr("phone:" \o Format(self.phone_number))>> ELSE <<>>)

\* Business.__hash__: hash(tuple(hash_fields)).  Python's hash of a tuple of
\* strings is taken to be collision-free: the fingerprint is the tuple.
Hash(self) == hash_fields(self)

\* An add_business that appends without looking at _seen_businesses.
add_business_unchecked(self, business) ==
    [business_list |-> Append(self.business_list, business),
     seen |-> self.seen \cup {Hash(business)}]

\* An add_business that puts a new record in front.
add_business_front(self, business) ==
    IF Hash(business) \notin self.seen
    THEN [business_list |-> <<business>> \o self.business_list,
          seen |-> self.seen \cup {Hash(business)}]
    ELSE self

\* BusinessList.add_business on self = [business_list, seen].
add_business(self, business) ==
    IF Hash(business) \notin self.seen
    THEN [business_list |-> Append(self.business_list, business),
          seen |-> self.seen \cup {Hash(business)}]
    ELSE self

\* BusinessList(): an empty list and an empty set.
BusinessList == [business_list |-> <<>>, seen |-> {}]

-----------------------------------------------------------------------------
(* Bounds and input sets *)

MaxAvail == 4       \* most results a free-running surface can load
MaxTotal == 3       \* largest --total tried against a free-running surface
MaxAdds == 3        \* add_business calls made on a bare BusinessList

\* total when --total is absent (or falsy).
DefaultTotal == 1000000

Term1 == "bakery in Paris"
Line1 == "bakery in Paris\n"
Line2 == "cafes\n"

SearchArgs == {PyNone, PyStr(""), PyStr(Term1)}
InputFiles == {PyNone, <<>>, <<Line2>>}
TwoTermFiles == InputFiles \cup {<<Line1, Line2>>}
TotalArgs == {PyNone} \cup {PyInt(n) : n \in 0..MaxTotal}

\* search_for.split(' in ')[0].strip()
Category(search_for) ==
    CASE search_for \in {Term1, Line1} -> "bakery"
      [] search_for = Line2 -> "cafes"
      [] OTHER -> search_for

\* search_for.split(' in ')[-1].strip()
Location(search_for) ==
    CASE search_for \in {Term1, Line1} -> "Paris"
      [] search_for = Line2 -> "cafes"
      [] OTHER -> search_for

\* f"{search_for}".replace(' ', '_')
FileName(search_for) ==
    CASE search_for = Term1 -> "bakery_in_Paris"
      [] search_for = Line1 -> "bakery_in_Paris\n"
      [] OTHER -> search_for

-----------------------------------------------------------------------------
(* The detail pane of a listing, and what the scrape reads from it.          *)
(* A pane gives, for each element the scrape looks up, PyNone when the pane  *)
(* has no such element and the element's text otherwise; url is page.url.    *)

UrlWithCoords == "https://www.google.com/maps/place/X/@12.34,-56.78,17z/data=1"
UrlNoCoords == "https://www.google.com/maps/search/X"

\* str.strip() on the name texts the panes carry.
Strip(s) ==
    CASE s = " X " -> "X"
      [] OTHER -> s

\* int(text.split()[0].replace(',', '').strip()): <<TRUE, n>>, or <<FALSE, 0>>
\* when int() raises ValueError.
ParseCount(s) ==
    CASE s = "1,234 reviews" -> <<TRUE, 1234>>
      [] s = "7" -> <<TRUE, 7>>
      [] OTHER -> <<FALSE, 0>>

\* float(label.split()[0].replace(',', '.').strip()), in hundredths.
ParseAverage(s) ==
    CASE s = "4,5 stars" -> <<TRUE, 450>>
      [] s = "3.0 stars" -> <<TRUE, 300>>
      [] OTHER -> <<FALSE, 0>>

\* extract_coordinates_from_url: the text between '/@' and the next '/', split
\* on ','; float() raises when the url has no '/@' segment.
extract_coordinates_from_url(url) ==
    CASE url = UrlWithCoords -> <<TRUE, PyFloat(1234), PyFloat(-5678)>>
      [] OTHER -> <<FALSE, PyNone, PyNone>>

Pane(n, a, w, p, rc, ra, u) ==
    [name |-> n, address |-> a, website |-> w, phone |-> p,
     review_count |-> rc, reviews_average |-> ra, url |-> u]

\* Before any click: no detail pane is open.
BlankPane == Pane(PyNone, PyNone, PyNone, PyNone, PyNone, PyNone, "about:blank")

FullPane == Pane(PyStr(" X "), PyStr("1 Rue A"), PyStr("a.com"), PyStr("+33 1"),
                 PyStr("1,234 reviews"), PyStr("4,5 stars"), UrlWithCoords)
BarePane == Pane(PyStr("Y"), PyNone, PyNone, PyNone, PyNone, PyNone, UrlWithCoords)
NoTitlePane == Pane(PyStr(""), PyNone, PyStr("b.com"), PyNone, PyStr("7"),
                    PyNone, UrlWithCoords)
NoNamePane == [BarePane EXCEPT !.name = PyNone]
BadCountPane == [FullPane EXCEPT !.review_count = PyStr("reviews")]
BadAveragePane == [FullPane EXCEPT !.reviews_average = PyStr("No reviews")]
NoCoordsPane == [FullPane EXCEPT !.url = UrlNoCoords]

\* The panes a site can show.
CorePanes == {FullPane, BarePane, NoTitlePane, NoNamePane, BadCountPane,
              BadAveragePane, NoCoordsPane}
FewPanes == {FullPane, BadCountPane}

\* The body of the try block after the click: <<"", business>> when it reaches
\* add_business, <<step, partial record>> when that step raises.
Scrape(pg, search_for) ==
    LET b0 == Business
        b1 == [b0 EXCEPT !.name = IF Truthy(pg.name)
                                  THEN PyStr(Strip(pg.name[2])) ELSE PyStr("")]
        b2 == [b1 EXCEPT !.address = IF pg.address # PyNone
                                     THEN pg.address ELSE PyStr("")]
        b3 == IF pg.website # PyNone
              THEN [b2 EXCEPT !.domain = pg.website,
                              !.website = PyStr("https://www." \o pg.website[2])]
              ELSE [b2 EXCEPT !.website = PyStr("")]
        b4 == [b3 EXCEPT !.phone_number = IF pg.phone # PyNone
                                          THEN pg.phone ELSE PyStr("")]
        rc == IF pg.review_count # PyNone
              THEN ParseCount(pg.review_count[2]) ELSE <<TRUE, 0>>
        b5 == [b4 EXCEPT !.reviews_count = IF pg.review_count # PyNone
                                           THEN PyInt(rc[2]) ELSE PyStr("")]
        ra == IF pg.reviews_average # PyNone
              THEN ParseAverage(pg.reviews_average[2]) ELSE <<TRUE, 0>>
        b6 == [b5 EXCEPT !.reviews_average = IF pg.reviews_average # PyNone
                                             THEN PyFloat(ra[2]) ELSE PyStr("")]
        b7 == [b6 EXCEPT !.category = PyStr(Category(search_for)),
                         !.location = PyStr(Location(search_for))]
        xy == extract_coordinates_from_url(pg.url)
        b8 == [b7 EXCEPT !.latitude = xy[2], !.longitude = xy[3]]
    IN  IF pg.name = PyNone THEN <<"name", b0>>     \* inner_text() times out
        ELSE IF ~rc[1] THEN <<"reviews_count", b4>>
        ELSE IF ~ra[1] THEN <<"reviews_average", b5>>
        ELSE IF ~xy[1] THEN <<"coordinates", b7>>
        ELSE <<"", b8>>

-----------------------------------------------------------------------------
(* main() *)

LoopPcs == {"wheel", "poll1", "take_target", "poll2", "take_all", "poll3"}

\* page.locator(...).all(): one handle per place link now on the surface.
AllLinks == [i \in 1..count |-> i]

argsVars == <<args_search, args_total, input_file, site>>
surfaceVars == <<count, avail, script>>
loopVars == <<npolls, previously_counted, exit_branch, listings, li>>
storeVars == <<business_list, seen_businesses>>
scrapeVars == <<detail, err, files, inserted>>

\* Lines 95-107: parse the arguments, bind search_list and total.
ParseArgs ==
    /\ pc = "parse"
    /\ search_list' = IF Truthy(args_search) THEN <<args_search[2]>> ELSE search_list
    /\ total' = IF Truthy(args_total) THEN args_total[2] ELSE DefaultTotal
    /\ pc' = "resolve"
    /\ UNCHANGED <<argsVars, browser, term, surfaceVars, loopVars, storeVars,
                   scrapeVars>>

\* A resolution that goes on to the browser with whatever it found.
ResolveSearchNoExit ==
    /\ pc = "resolve"
    /\ search_list' = IF Truthy(args_search) THEN search_list
                      ELSE IF input_file # PyNone THEN input_file ELSE <<>>
    /\ pc' = "launch"
    /\ UNCHANGED <<argsVars, total, browser, term, surfaceVars, loopVars,
                   storeVars, scrapeVars>>

\* Lines 109-124: without -s, read input.txt; exit when nothing was found.
ResolveSearch ==
    /\ pc = "resolve"
    /\ IF Truthy(args_search)
       THEN /\ search_list' = search_list
            /\ pc' = "launch"
       ELSE /\ search_list' = IF input_file # PyNone THEN input_file ELSE <<>>
            /\ pc' = IF Len(search_list') = 0 THEN "exited" ELSE "launch"
    /\ UNCHANGED <<argsVars, total, browser, term, surfaceVars, loopVars,
                   storeVars, scrapeVars>>

\* Line 127: p.chromium.launch.
Launch ==
    /\ pc = "launch"
    /\ browser' = "launched"
    /\ pc' = "new_page"
    /\ UNCHANGED <<argsVars, search_list, total, term, surfaceVars, loopVars,
                   storeVars, scrapeVars>>

\* Line 128: browser.new_page.
NewPage ==
    /\ pc = "new_page"
    /\ browser' = "page"
    /\ pc' = "goto"
    /\ UNCHANGED <<argsVars, search_list, total, term, surfaceVars, loopVars,
                   storeVars, scrapeVars>>

\* Line 130: page.goto, which raises on its 20 s timeout; the exception leaves
\* main() and is printed at line 250.
Goto ==
    /\ pc = "goto"
    /\ \/ /\ browser' = "maps"
          /\ pc' = "search"
          /\ term' = 1
       \/ /\ browser' = browser
          /\ pc' = "failed"
          /\ term' = term
    /\ UNCHANGED <<argsVars, search_list, total, surfaceVars, loopVars,
                   storeVars, scrapeVars>>

\* Lines 132-144 for the next search term, on a surface that can load av
\* results, shows c of them when hover() returns and follows script sc:
\* hover() raises when no place link ever appears.
SearchOn(av, c, sc) ==
    /\ pc = "search"
    /\ term <= Len(search_list)
    /\ avail' = av
    /\ IF av = 0
       THEN /\ pc' = "failed"
            /\ count' = 0
            /\ script' = script
            /\ UNCHANGED loopVars
       ELSE /\ pc' = "wheel"
            /\ count' = c
            /\ script' = sc
            /\ previously_counted' = 0
            /\ npolls' = 0
            /\ exit_branch' = "none"
            /\ UNCHANGED <<listings, li>>
    /\ UNCHANGED <<argsVars, search_list, total, browser, term, storeVars,
                   scrapeVars>>

\* A search on a free-running surface.
Search == \E av \in 0..MaxAvail : \E c \in 1..(IF av = 0 THEN 1 ELSE av) :
              SearchOn(av, c, <<>>)

\* The surface loads more results on its own, at any point of the loop.
Grow ==
    /\ pc \in LoopPcs
    /\ \E c \in (count + 1)..avail : count' = c
    /\ UNCHANGED <<pc, argsVars, search_list, total, browser, term, avail, script,
                   loopVars, storeVars, scrapeVars>>

\* Lines 146-147: wheel, then wait 3 s.
Wheel ==
    /\ pc = "wheel"
    /\ pc' = "poll1"
    /\ UNCHANGED <<argsVars, search_list, total, browser, term, surfaceVars,
                   loopVars, storeVars, scrapeVars>>

\* A target test that wants more than total.
Poll1Strict ==
    /\ pc = "poll1"
    /\ pc' = IF count > total THEN "take_target" ELSE "poll2"
    /\ UNCHANGED <<argsVars, search_list, total, browser, term, surfaceVars,
                   loopVars, storeVars, scrapeVars>>

\* Lines 149-154: count() >= total.
Poll1 ==
    /\ pc = "poll1"
    /\ pc' = IF count >= total THEN "take_target" ELSE "poll2"
    /\ UNCHANGED <<argsVars, search_list, total, browser, term, surfaceVars,
                   loopVars, storeVars, scrapeVars>>

\* Line 184, reached from either break: a fresh BusinessList.
NewBusinessList ==
    /\ business_list' = BusinessList.business_list
    /\ seen_businesses' = BusinessList.seen
    /\ UNCHANGED inserted

\* A target branch that forgets the slice.
TakeTargetNoSlice ==
    /\ pc = "take_target"
    /\ listings' = AllLinks
    /\ exit_branch' = "target"
    /\ li' = 1
    /\ pc' = "scrape"
    /\ NewBusinessList
    /\ UNCHANGED <<argsVars, search_list, total, browser, term, surfaceVars,
                   npolls, previously_counted, scrapeVars>>

\* Lines 155-160: all()[:total], then break.
TakeTarget ==
    /\ pc = "take_target"
    /\ listings' = SubSeq(AllLinks, 1, Min(total, count))
    /\ exit_branch' = "target"
    /\ li' = 1
    /\ pc' = "scrape"
    /\ NewBusinessList
    /\ UNCHANGED <<argsVars, search_list, total, browser, term, surfaceVars,
                   npolls, previously_counted, scrapeVars>>

\* Lines 162-167: count() == previously_counted.
Poll2 ==
    /\ pc = "poll2"
    /\ pc' = IF count = previously_counted THEN "take_all" ELSE "poll3"
    /\ UNCHANGED <<argsVars, search_list, total, browser, term, surfaceVars,
                   loopVars, storeVars, scrapeVars>>

\* Lines 168-172: all(), then break.
TakeAll ==
    /\ pc = "take_all"
    /\ listings' = AllLinks
    /\ exit_branch' = "nogrowth"
    /\ li' = 1
    /\ pc' = "scrape"
    /\ NewBusinessList
    /\ UNCHANGED <<argsVars, search_list, total, browser, term, surfaceVars,
                   npolls, previously_counted, scrapeVars>>

\* A loop that never records what it counted.
Poll3Forgets ==
    /\ pc = "poll3"
    /\ previously_counted' = 0
    /\ pc' = "wheel"
    /\ UNCHANGED <<argsVars, search_list, total, browser, term, surfaceVars,
                   npolls, exit_branch, listings, li, storeVars, scrapeVars>>

\* Lines 174-182: previously_counted = count(), print, loop.
Poll3 ==
    /\ pc = "poll3"
    /\ previously_counted' = count
    /\ pc' = "wheel"
    /\ UNCHANGED <<argsVars, search_list, total, browser, term, surfaceVars,
                   npolls, exit_branch, listings, li, storeVars, scrapeVars>>

-----------------------------------------------------------------------------
(* The scrape of one listing, the export, the end of main() *)

\* business_list.add_business(business), as a step on the model's state.
AddBusinessCall(business) ==
    LET r == add_business([business_list |-> business_list,
                           seen |-> seen_businesses], business)
    IN  /\ business_list' = r.business_list
        /\ seen_businesses' = r.seen

\* A handler that lets the exception leave main().
ListingAborts(step) ==
    /\ err' = step
    /\ li' = li
    /\ pc' = "failed"
    /\ UNCHANGED storeVars

\* Lines 237-238: the exception of one listing is printed; the for loop goes on.
ListingFailed(step) ==
    /\ err' = step
    /\ li' = li + 1
    /\ pc' = pc
    /\ UNCHANGED storeVars

\* Lines 187-238 for one listing: click() raises, or the pane it opens is
\* scraped and the record handed to add_business.
ProcessListing ==
    /\ pc = "scrape"
    /\ li <= Len(listings)
    /\ \/ /\ detail' = detail
          /\ ListingFailed("click")
       \/ \E pg \in site :
            /\ detail' = pg
            /\ LET r == Scrape(pg, search_list[term])
               IN  IF r[1] = ""
                   THEN /\ AddBusinessCall(r[2])
                        /\ err' = ""
                        /\ li' = li + 1
                        /\ pc' = pc
                   ELSE ListingFailed(r[1])
    /\ UNCHANGED <<argsVars, search_list, total, browser, term, surfaceVars,
                   npolls, previously_counted, exit_branch, listings, files,
                   inserted>>

\* Lines 241-242: the term's two files, one row per record of business_list.
ExportTerm ==
    /\ pc = "scrape"
    /\ li > Len(listings)
    /\ files' = Append(files, [name |-> FileName(search_list[term]),
                               rows |-> business_list])
    /\ term' = term + 1
    /\ pc' = "search"
    /\ UNCHANGED <<argsVars, search_list, total, browser, surfaceVars, loopVars,
                   storeVars, detail, err, inserted>>

\* Line 244: after the last term.
CloseBrowser ==
    /\ pc = "search"
    /\ term > Len(search_list)
    /\ browser' = "closed"
    /\ pc' = "done"
    /\ UNCHANGED <<argsVars, search_list, total, term, surfaceVars, loopVars,
                   storeVars, scrapeVars>>

-----------------------------------------------------------------------------
(* A scripted surface: its k-th poll shows script[k], and its last count     *)
(* from then on.                                                             *)

MaxCount == 3       \* largest count of an enumerated script
MaxScriptLen == 3   \* longest enumerated script

CountAt(sc, k) == IF k = 0 THEN 0 ELSE IF k <= Len(sc) THEN sc[k] ELSE sc[Len(sc)]

NonDecreasing(sc) == \A i \in 1..(Len(sc) - 1) : sc[i] <= sc[i + 1]

SpecScript == <<5, 12, 20, 20>>

Scripts == {SpecScript} \cup
           {sc \in UNION {[1..n -> 1..MaxCount] : n \in 1..MaxScriptLen} :
                NonDecreasing(sc)}

ScriptTotals == {PyInt(n) : n \in 1..MaxCount} \cup {PyInt(10), PyInt(100)}

SearchScripted == \E sc \in Scripts : SearchOn(sc[Len(sc)], 1, sc)

\* Lines 146-147 against a scripted surface: after the wait the surface shows
\* the next count of its script.
WheelScripted ==
    /\ pc = "wheel"
    /\ pc' = "poll1"
    /\ npolls' = npolls + 1
    /\ count' = CountAt(script, npolls + 1)
    /\ UNCHANGED <<argsVars, search_list, total, browser, term, avail, script,
                   previously_counted, exit_branch, listings, li, storeVars,
                   scrapeVars>>

-----------------------------------------------------------------------------
(* A bare BusinessList fed arbitrary records *)

Names == {PyStr("X"), PyStr("Y")}
Domains == {PyNone, PyStr(""), PyStr("a.com"), PyStr("b.com")}
Websites == {PyStr(""), PyStr("https://www.a.com")}
Phones == {PyNone, PyStr("+33 1")}

\* Every "X", and "Y" without a website or a phone.
Records == {r \in {[Business EXCEPT !.name = n, !.domain = d, !.website = w,
                                     !.phone_number = p] :
                       n \in Names, d \in Domains, w \in Websites, p \in Phones} :
                \/ r.name = PyStr("X")
                \/ r.website = PyStr("") /\ r.phone_number = PyNone}

StoreCall ==
    /\ pc = "store"
    /\ Len(inserted) < MaxAdds
    /\ \E b \in Records :
          /\ AddBusinessCall(b)
          /\ inserted' = Append(inserted, b)
    /\ UNCHANGED <<pc, argsVars, search_list, total, browser, term, surfaceVars,
                   loopVars, detail, err, files>>

-----------------------------------------------------------------------------
(* Specifications *)

InitWith(start, searches, totals, inputs, panes) ==
    /\ pc = start
    /\ args_search \in searches
    /\ args_total \in totals
    /\ input_file \in inputs
    /\ site = panes
    /\ search_list = <<>>
    /\ total = 0
    /\ browser = "none"
    /\ term = 0
    /\ count = 0
    /\ avail = 0
    /\ script = <<>>
    /\ npolls = 0
    /\ previously_counted = 0
    /\ exit_branch = "none"
    /\ listings = <<>>
    /\ li = 0
    /\ detail = BlankPane
    /\ err = ""
    /\ business_list = <<>>
    /\ seen_businesses = {}
    /\ files = <<>>
    /\ inserted = <<>>

Init == InitWith("parse", SearchArgs, TotalArgs, InputFiles, CorePanes)

Main ==
    \/ ParseArgs
    \/ ResolveSearch
    \/ Launch
    \/ NewPage
    \/ Goto
    \/ Search
    \/ Wheel
    \/ Poll1
    \/ TakeTarget
    \/ Poll2
    \/ TakeAll
    \/ Poll3
    \/ ProcessListing
    \/ ExportTerm
    \/ CloseBrowser

Next == Main \/ Grow

Spec == Init /\ [][Next]_vars

\* The same program over input files of up to two terms, on a site of two panes.
InitLoop == InitWith("parse", SearchArgs, TotalArgs, TwoTermFiles, FewPanes)
SpecLoop == InitLoop /\ [][Next]_vars

\* main() is a sequential program whose waits are bounded: it always takes its
\* next step.  Nothing is assumed of the surface.
FairSpec == InitLoop /\ [][Next]_vars /\ WF_vars(Main)

InitScripted ==
    InitWith("parse", SearchArgs, ScriptTotals, TwoTermFiles, FewPanes)

NextScripted ==
    \/ ParseArgs
    \/ ResolveSearch
    \/ Launch
    \/ NewPage
    \/ Goto
    \/ SearchScripted
    \/ WheelScripted
    \/ Poll1
    \/ TakeTarget
    \/ Poll2
    \/ TakeAll
    \/ Poll3
    \/ ProcessListing
    \/ ExportTerm
    \/ CloseBrowser

SpecScripted == InitScripted /\ [][NextScripted]_vars

InitStore == InitWith("store", {PyNone}, {PyNone}, {PyNone}, {})

SpecStore == InitStore /\ [][StoreCall]_vars

-----------------------------------------------------------------------------
(* The scroll loop: C1, C2, C3, C10 *)

StopPoll(sc, n) ==
    CHOOSE k \in 1..(Len(sc) + 1) :
        /\ CountAt(sc, k) >= n \/ CountAt(sc, k) = CountAt(sc, k - 1)
        /\ \A j \in 1..(k - 1) :
              ~(CountAt(sc, j) >= n \/ CountAt(sc, j) = CountAt(sc, j - 1))

\* The stopping rule of C2 on every scripted surface.
StopRule ==
    pc = "scrape" =>
        LET k == StopPoll(script, total)
        IN  /\ npolls = k
            /\ Len(listings) = IF CountAt(script, k) >= total
                               THEN total ELSE CountAt(script, k)

\* On counts 5, 12, 20, 20 with N = 10: the second poll, 10 handles.
StopsAtTarget ==
    pc = "scrape" /\ script = SpecScript /\ total = 10 =>
        npolls = 2 /\ Len(listings) = 10

\* C2 as stated: the stopping rule, and on counts 5, 12, 20, 20 the loop stops
\* at the third poll with 20 handles for N = 100 and at the second poll with
\* 10 handles for N = 10.
C2_Original ==
    /\ StopRule
    /\ StopsAtTarget
    /\ pc = "scrape" /\ script = SpecScript /\ total = 100 =>
          npolls = 3 /\ Len(listings) = 20

\* C2, amended: the stopping rule, and on counts 5, 12, 20, 20 the loop stops
\* at the fourth poll (the first that repeats the count before it) with 20
\* handles for N = 100 and at the second poll with 10 handles for N = 10.
C2_Amended ==
    /\ StopRule
    /\ StopsAtTarget
    /\ pc = "scrape" /\ script = SpecScript /\ total = 100 =>
          npolls = 4 /\ Len(listings) = 20

\* The loop has just ended on counts 5, 12, 20, 20 with N = 100.
C2_Witness ==
    /\ pc = "scrape"
    /\ script = SpecScript
    /\ total = 100
    /\ exit_branch = "nogrowth"
    /\ li = 1

\* C3: under any non-decreasing surface the scroll loop ends, and when the
\* count has not reached N it has ended through the no-growth branch.
C3_Terminates ==
    /\ (pc \in LoopPcs) ~> (pc = "scrape")
    /\ [](pc = "scrape" /\ count < total => exit_branch = "nogrowth")

\* The loop has ended on a surface that cannot reach the target.
C3_Witness ==
    /\ pc = "scrape"
    /\ total > avail
    /\ avail >= 2
    /\ exit_branch = "nogrowth"

\* C10: with --total T given, no term clicks more than T handles or exports
\* more than T rows.
C10_Cap ==
    args_total # PyNone =>
        /\ pc = "scrape" => li - 1 <= args_total[2]
        /\ \A i \in DOMAIN files : Len(files[i].rows) <= args_total[2]

-----------------------------------------------------------------------------
(* The duplicate filter: C4, C5, C6 *)

\* A field left empty: None or "".
Empty(v) == v \in {PyNone, PyStr("")}

\* The identity rule of the fingerprint, as the documentation states it.
SameEntity(a, b) ==
    /\ a.name = b.name
    /\ \A f \in {"domain", "website", "phone_number"} :
          \/ Empty(a[f]) /\ Empty(b[f])
          \/ a[f] = b[f] /\ ~Empty(a[f])

\* C4: in every state of a BusinessList, add_business drops a record b exactly
\* when some stored record a has the same name and, for each of domain,
\* website and phone_number, both leave it empty or both hold the same
\* non-empty value.
C4_Fingerprint ==
    LET self == [business_list |-> business_list, seen |-> seen_businesses]
    IN  \A b \in Records :
            (add_business(self, b) = self)
                <=> \E i \in DOMAIN business_list : SameEntity(business_list[i], b)

\* "X" without contact information was handed in twice (its domain once None,
\* once "") and stored once; "X" at a.com, handed in third, is stored as well.
C4_Witness ==
    LET x == [Business EXCEPT !.name = PyStr("X"), !.website = PyStr("")]
    IN  /\ inserted = <<x, [x EXCEPT !.domain = PyStr("")],
                        [x EXCEPT !.domain = PyStr("a.com")]>>
        /\ business_list = <<x, [x EXCEPT !.domain = PyStr("a.com")]>>

\* C5: no two records of business_list have the same fingerprint.
C5_NoDuplicates ==
    \A i, j \in DOMAIN business_list :
        i # j => Hash(business_list[i]) # Hash(business_list[j])

\* A record was dropped as a duplicate and two records are stored.
C5_Witness ==
    /\ Len(inserted) = 3
    /\ Len(business_list) = 2
    /\ \E i, j \in DOMAIN inserted : i < j /\ Hash(inserted[i]) = Hash(inserted[j])

\* The calls whose record was the first with its fingerprint.
FirstCalls == {j \in DOMAIN inserted :
                  \A i \in 1..(j - 1) : Hash(inserted[i]) # Hash(inserted[j])}

\* The k-th smallest member of a set of numbers.
RECURSIVE Nth(_, _)
Nth(S, k) ==
    LET m == CHOOSE x \in S : \A y \in S : x <= y
    IN  IF k = 1 THEN m ELSE Nth(S \ {m}, k - 1)

FirstOccurrences == [k \in 1..Cardinality(FirstCalls) |-> inserted[Nth(FirstCalls, k)]]

\* C6: every add_business call leaves business_list unchanged or appends its
\* record at the end, and business_list is always the sequence of first
\* occurrences of each fingerprint among the records handed in, in call order.
C6_FirstOccurrences ==
    /\ [](business_list = FirstOccurrences)
    /\ [][\/ business_list' = business_list
          \/ /\ business_list' = Append(business_list, inserted'[Len(inserted')])
             /\ Hash(inserted'[Len(inserted')]) \notin seen_businesses]_vars

\* The second of three calls repeated the first one's fingerprint; the third
\* brought a new one.
C6_Witness ==
    /\ Len(inserted) = 3
    /\ Hash(inserted[1]) = Hash(inserted[2])
    /\ business_list = <<inserted[1], inserted[3]>>

-----------------------------------------------------------------------------
(* The scrape and the start of main(): C7, C8, C9 *)

\* The panes of CorePanes on which a step of the scrape raises.
RaisingPanes == {NoNamePane, BadCountPane, BadAveragePane, NoCoordsPane}

\* main() is about to process a listing.
AtListing == pc = "scrape" /\ li <= Len(listings)

\* C7: when the click or a step of the scrape of a listing raises, the
\* collection is left as it was, the loop moves to the next listing, and every
\* term that reaches the end of main() has been exported.
C7_ListingIsolated ==
    /\ [][AtListing /\ (err' = "click" \/ detail' \in RaisingPanes) =>
              /\ err' # ""
              /\ business_list' = business_list
              /\ seen_businesses' = seen_businesses
              /\ li' = li + 1
              /\ pc' = "scrape"]_vars
    /\ [](pc = "done" => Len(files) = Len(search_list))

\* The second of three listings raised on its coordinates after the first was
\* accepted; the third is still to be processed.
C7_Witness ==
    /\ pc = "scrape"
    /\ Len(listings) = 3
    /\ li = 3
    /\ err = "coordinates"
    /\ Len(business_list) = 1

\* The elements the pane pg lacks are all read as empty in the record b.
MissingReadEmpty(pg, b) ==
    /\ pg.name = PyNone => Empty(b.name)
    /\ pg.address = PyNone => Empty(b.address)
    /\ pg.website = PyNone => Empty(b.domain) /\ Empty(b.website)
    /\ pg.phone = PyNone => Empty(b.phone_number)
    /\ pg.review_count = PyNone => Empty(b.reviews_count)
    /\ pg.reviews_average = PyNone => Empty(b.reviews_average)

\* The pane's url carries coordinates and the texts it does have parse.
WellFormed(pg) ==
    /\ extract_coordinates_from_url(pg.url)[1]
    /\ pg.review_count # PyNone => ParseCount(pg.review_count[2])[1]
    /\ pg.reviews_average # PyNone => ParseAverage(pg.reviews_average[2])[1]

\* C8: a listing whose click succeeds on a well-formed pane lacking any of the
\* six elements raises nothing and yields a record in which each missing
\* element is read as an empty value.
C8_MissingIsEmpty ==
    [][AtListing /\ err' # "click" /\ WellFormed(detail') =>
          /\ err' = ""
          /\ business_list' # business_list =>
                MissingReadEmpty(detail', business_list'[Len(business_list')])]_vars

\* No -s phrase and no line in input.txt.
NoPhrase == ~Truthy(args_search) /\ input_file \in {PyNone, <<>>}

\* C9: with no search phrase resolvable main() exits before the browser is
\* launched, and nothing of the browser is ever open while search_list is empty.
C9_NoBrowserWithoutSearch ==
    /\ NoPhrase /\ pc \notin {"parse", "resolve"} => pc = "exited" /\ browser = "none"
    /\ browser # "none" => Len(search_list) > 0

\* main() has exited for want of a search phrase.
C9_Witness == pc = "exited" /\ NoPhrase /\ browser = "none" /\ search_list = <<>>

=============================================================================
